---- MODULE Spec2Model ----
(***************************************************************************)
(* The component registry of crates/component/src/component.rs:            *)
(* the global COMPONENT_DATA registry behind a reader/writer lock, the     *)
(* registration entry points, init() over the two distributed slices,      *)
(* the components() snapshot builder and the AllComponents queries.        *)
(***************************************************************************)
EXTENDS Integers, Sequences, FiniteSets, TLC

(* ------------------------------ bounds -------------------------------- *)

\* Number of threads that call into the crate.
NumThreads == 2

\* Total number of init / register_* / components calls made in one run.
MaxCalls == 3

Threads == 1..NumThreads

NoThread == 0

(* ------------------------- Option<T> encoding -------------------------- *)

None == <<>>

Some(x) == <<x>>

(* --------------------- the component types (trait impls) --------------- *)

\* &'static str values are byte strings: "a" is <<97>>, "ab" is <<97, 98>>,
\* "b" is <<98>>. Button and ButtonAlt report the same name.
Types == {"Avatar", "Button", "ButtonAlt", "Checkbox"}

\* Component::name
Name(T) ==
    CASE T = "Avatar" -> <<97, 98>>
      [] T = "Button" -> <<98>>
      [] T = "ButtonAlt" -> <<98>>
      [] T = "Checkbox" -> <<97>>

\* Component::scope
Scope(T) ==
    CASE T = "Avatar" -> None
      [] T = "Button" -> Some(<<"Layout">>)
      [] T = "ButtonAlt" -> Some(<<"Input">>)
      [] T = "Checkbox" -> Some(<<"Input">>)

\* Component::description
Description(T) ==
    CASE T = "Avatar" -> None
      [] T = "Button" -> Some("v1")
      [] T = "ButtonAlt" -> Some("v2")
      [] T = "Checkbox" -> Some("v1")

\* ComponentPreview::preview, as the function pointer T::preview
Preview(T) == <<"preview", T>>

\* The link-time slices: each entry is the callback registering one type.
ALL_COMPONENTS == <<"Avatar", "Button">>

ALL_PREVIEWS == <<"Button", "Avatar">>

(* ------------------------------ state ---------------------------------- *)

VARIABLES
    components,      \* ComponentRegistry.components: Vec of (scope, name, description)
    previews,        \* ComponentRegistry.previews: HashMap name -> fn
    lock,            \* the RwLock around COMPONENT_DATA
    pc,              \* per thread: the position in the code
    op,              \* per thread: the public function it is running
    component_data,  \* per thread: local of register_component
    preview_data,    \* per thread: local of register_preview
    component_fns,   \* per thread: local of init(), the callbacks still to run
    preview_fns,     \* per thread: local of init(), the callbacks still to run
    invoked,         \* per thread: the callbacks the current init() call has invoked
    all_components,  \* per thread: local of components()
    idx,             \* per thread: position of the for loop of components()
    snap,            \* per thread: the AllComponents value last returned to it, if any
    out,             \* the value the query that has just returned gave, if any
    returned,        \* names whose register_component call has returned
    pushed,          \* how many register_component calls have returned, per triple
    lastPreview,     \* per name, the callback of the last register_preview call
                     \* that has returned
    previewFirst,    \* names whose register_preview call returned before any
                     \* register_component call for the name
    trip,            \* the ComponentScope values and texts a caller has converted
    calls,           \* number of public calls started
    initsDone,       \* number of init() calls that have returned
    directCalls      \* number of register_* calls made outside init()

vars == <<components, previews, lock, pc, op, component_data, preview_data,
          component_fns, preview_fns, invoked, all_components, idx, snap, out,
          returned, pushed, lastPreview, previewFirst, trip, calls, initsDone,
          directCalls>>

registry == <<components, previews>>

regLocals == <<component_data, preview_data>>

initLocals == <<component_fns, preview_fns, invoked>>

compLocals == <<all_components, idx>>

counters == <<calls, initsDone, directCalls>>

\* What is recorded of the registration calls that have returned.
observed == <<pushed, lastPreview, previewFirst>>

\* No conversion has been made.
NoTrip == [start |-> "none", scopes |-> <<>>, texts |-> <<>>, ctors |-> <<>>]

\* The value of a local that is not live.
Null == <<"null">>

EmptyMap == [k \in {} |-> None]

\* ComponentRegistry::new
ComponentRegistryNew == [components |-> <<>>, previews |-> EmptyMap]

\* The registry is created on first access; no thread is inside the crate.
Quiet ==
    /\ components = ComponentRegistryNew.components
    /\ previews = ComponentRegistryNew.previews
    /\ lock = [writer |-> NoThread, readers |-> {}]
    /\ pc = [t \in Threads |-> "idle"]
    /\ op = [t \in Threads |-> "none"]
    /\ component_data = [t \in Threads |-> Null]
    /\ preview_data = [t \in Threads |-> Null]
    /\ component_fns = [t \in Threads |-> <<>>]
    /\ preview_fns = [t \in Threads |-> <<>>]
    /\ invoked = [t \in Threads |-> <<>>]
    /\ all_components = [t \in Threads |-> EmptyMap]
    /\ idx = [t \in Threads |-> 0]
    /\ snap = [t \in Threads |-> None]
    /\ out = None
    /\ returned = {}
    /\ pushed = EmptyMap
    /\ lastPreview = EmptyMap
    /\ previewFirst = {}
    /\ calls = 0
    /\ initsDone = 0
    /\ directCalls = 0

Init == Quiet /\ trip = NoTrip

(* --------------------------- the RwLock -------------------------------- *)

\* CanWrite with the readers forgotten: a writer is let in while snapshots
\* are being built.
CanWriteIgnoringReaders == lock.writer = NoThread

\* CanWrite with the writer forgotten: a second writer is let in.
CanWriteIgnoringWriter == lock.readers = {}

\* RwLock::write is granted when nobody holds the lock.
CanWrite == lock.writer = NoThread /\ lock.readers = {}

\* RwLock::read is granted when no writer holds the lock.
CanRead == lock.writer = NoThread

WriteLocked(t) == [lock EXCEPT !.writer = t]

WriteUnlocked == [lock EXCEPT !.writer = NoThread]

ReadLocked(t) == [lock EXCEPT !.readers = @ \cup {t}]

ReadUnlocked(t) == [lock EXCEPT !.readers = @ \ {t}]

(* ------------------------- HashMap operations -------------------------- *)

\* Insert that keeps the value of an existing key (entry().or_insert()).
InsertKeepFirst(m, k, v) == [x \in DOMAIN m \cup {k} |-> IF x \in DOMAIN m THEN m[x] ELSE v]

\* HashMap::insert: the value for an existing key is replaced.
Insert(m, k, v) == [x \in DOMAIN m \cup {k} |-> IF x = k THEN v ELSE m[x]]

\* HashMap::get(k).cloned()
Get(m, k) == IF k \in DOMAIN m THEN Some(m[k]) ELSE None

\* HashMap::values: every entry once, in an order the map chooses.
Values(m) ==
    LET n == Cardinality(DOMAIN m)
        orders == {p \in [1..n -> DOMAIN m] : \A i, j \in 1..n : p[i] = p[j] => i = j}
    IN  {[i \in 1..n |-> m[p[i]]] : p \in orders}

(* ----------------------- register_component ---------------------------- *)

\* The record of returned calls with one more call for x.
BagAdd(b, x) ==
    [y \in DOMAIN b \cup {x} |->
        (IF y \in DOMAIN b THEN b[y] ELSE 0) + (IF y = x THEN 1 ELSE 0)]

\* let component_data = (T::scope(), T::name(), T::description());
ComponentData(T) == <<Scope(T), Name(T), Description(T)>>

\* Where a register_* call returns to: the loop of init() that called it, or
\* the thread's caller.
ReturnTo(t, loop) == IF op[t] = "init" THEN loop ELSE "idle"

\* The public function a thread is in once a register_* call has returned.
OpAfter(t) == IF op[t] = "init" THEN "init" ELSE "none"

\* A direct call of register_component::<T>().
register_component(t, T) ==
    /\ pc[t] = "idle"
    /\ calls < MaxCalls
    /\ calls' = calls + 1
    /\ directCalls' = directCalls + 1
    /\ op' = [op EXCEPT ![t] = "register_component"]
    /\ component_data' = [component_data EXCEPT ![t] = ComponentData(T)]
    /\ pc' = [pc EXCEPT ![t] = "rc_lock"]
    /\ out' = None
    /\ UNCHANGED <<observed, trip>>
    /\ UNCHANGED <<registry, lock, preview_data, initLocals, compLocals, snap,
                   returned, initsDone>>

\* COMPONENT_DATA.write()
register_component_write(t) ==
    /\ pc[t] = "rc_lock"
    /\ CanWrite
    /\ lock' = WriteLocked(t)
    /\ pc' = [pc EXCEPT ![t] = "rc_push"]
    /\ out' = None
    /\ UNCHANGED <<observed, trip>>
    /\ UNCHANGED <<registry, op, regLocals, initLocals, compLocals, snap, returned,
                   counters>>

\* register_component_push that assigns the list instead of pushing onto it.
register_component_assign(t) ==
    /\ pc[t] = "rc_push"
    /\ components' = <<component_data[t]>>
    /\ lock' = WriteUnlocked
    /\ returned' = returned \cup {component_data[t][2]}
    /\ component_data' = [component_data EXCEPT ![t] = Null]
    /\ pc' = [pc EXCEPT ![t] = ReturnTo(t, "init_components")]
    /\ op' = [op EXCEPT ![t] = OpAfter(t)]
    /\ out' = None
    /\ pushed' = BagAdd(pushed, component_data[t])
    /\ UNCHANGED <<lastPreview, previewFirst, trip>>
    /\ UNCHANGED <<previews, preview_data, initLocals, compLocals, snap, counters>>

\* register_component_push that keeps one triple per name: a triple whose name
\* is in the list replaces the triple of that name.
register_component_dedup(t) ==
    /\ pc[t] = "rc_push"
    /\ components' =
          IF \E i \in 1..Len(components) : components[i][2] = component_data[t][2]
          THEN [i \in 1..Len(components) |->
                   IF components[i][2] = component_data[t][2]
                   THEN component_data[t] ELSE components[i]]
          ELSE Append(components, component_data[t])
    /\ lock' = WriteUnlocked
    /\ returned' = returned \cup {component_data[t][2]}
    /\ component_data' = [component_data EXCEPT ![t] = Null]
    /\ pc' = [pc EXCEPT ![t] = ReturnTo(t, "init_components")]
    /\ op' = [op EXCEPT ![t] = OpAfter(t)]
    /\ out' = None
    /\ pushed' = BagAdd(pushed, component_data[t])
    /\ UNCHANGED <<lastPreview, previewFirst, trip>>
    /\ UNCHANGED <<previews, preview_data, initLocals, compLocals, snap, counters>>

\* .components.push(component_data); the guard is dropped at the end of the
\* statement and the function returns.
register_component_push(t) ==
    /\ pc[t] = "rc_push"
    /\ components' = Append(components, component_data[t])
    /\ lock' = WriteUnlocked
    /\ returned' = returned \cup {component_data[t][2]}
    /\ component_data' = [component_data EXCEPT ![t] = Null]
    /\ pc' = [pc EXCEPT ![t] = ReturnTo(t, "init_components")]
    /\ op' = [op EXCEPT ![t] = OpAfter(t)]
    /\ out' = None
    /\ pushed' = BagAdd(pushed, component_data[t])
    /\ UNCHANGED <<lastPreview, previewFirst, trip>>
    /\ UNCHANGED <<previews, preview_data, initLocals, compLocals, snap, counters>>

(* ------------------------- register_preview ---------------------------- *)

\* let preview_data = (T::name(), T::preview as fn(..) -> AnyElement);
PreviewData(T) == <<Name(T), Preview(T)>>

\* A direct call of register_preview::<T>().
register_preview(t, T) ==
    /\ pc[t] = "idle"
    /\ calls < MaxCalls
    /\ calls' = calls + 1
    /\ directCalls' = directCalls + 1
    /\ op' = [op EXCEPT ![t] = "register_preview"]
    /\ preview_data' = [preview_data EXCEPT ![t] = PreviewData(T)]
    /\ pc' = [pc EXCEPT ![t] = "rp_lock"]
    /\ out' = None
    /\ UNCHANGED <<observed, trip>>
    /\ UNCHANGED <<registry, lock, component_data, initLocals, compLocals, snap,
                   returned, initsDone>>

\* COMPONENT_DATA.write()
register_preview_write(t) ==
    /\ pc[t] = "rp_lock"
    /\ CanWrite
    /\ lock' = WriteLocked(t)
    /\ pc' = [pc EXCEPT ![t] = "rp_insert"]
    /\ out' = None
    /\ UNCHANGED <<observed, trip>>
    /\ UNCHANGED <<registry, op, regLocals, initLocals, compLocals, snap, returned,
                   counters>>

\* register_preview_insert with snapshots that are views of the registry: the
\* insert shows in the snapshots already handed out.
register_preview_insert_shared(t) ==
    /\ pc[t] = "rp_insert"
    /\ previews' = Insert(previews, preview_data[t][1], preview_data[t][2])
    /\ snap' = [u \in Threads |->
                   IF snap[u] = None THEN None
                   ELSE Some([n \in DOMAIN snap[u][1] |->
                                 IF n = preview_data[t][1]
                                 THEN [snap[u][1][n] EXCEPT
                                          !.preview = Some(preview_data[t][2])]
                                 ELSE snap[u][1][n]])]
    /\ lock' = WriteUnlocked
    /\ preview_data' = [preview_data EXCEPT ![t] = Null]
    /\ pc' = [pc EXCEPT ![t] = ReturnTo(t, "init_previews")]
    /\ op' = [op EXCEPT ![t] = OpAfter(t)]
    /\ out' = None
    /\ lastPreview' = [n \in DOMAIN lastPreview \cup {preview_data[t][1]} |->
                          IF n = preview_data[t][1] THEN preview_data[t][2]
                          ELSE lastPreview[n]]
    /\ previewFirst' = IF preview_data[t][1] \in returned
                       THEN previewFirst
                       ELSE previewFirst \cup {preview_data[t][1]}
    /\ UNCHANGED <<pushed, trip>>
    /\ UNCHANGED <<components, component_data, initLocals, compLocals, returned,
                   counters>>

\* register_preview_insert that drops the preview of a name no component is
\* registered under yet.
register_preview_insert_known(t) ==
    /\ pc[t] = "rp_insert"
    /\ previews' = IF \E i \in 1..Len(components) : components[i][2] = preview_data[t][1]
                   THEN Insert(previews, preview_data[t][1], preview_data[t][2])
                   ELSE previews
    /\ lock' = WriteUnlocked
    /\ preview_data' = [preview_data EXCEPT ![t] = Null]
    /\ pc' = [pc EXCEPT ![t] = ReturnTo(t, "init_previews")]
    /\ op' = [op EXCEPT ![t] = OpAfter(t)]
    /\ out' = None
    /\ lastPreview' = [n \in DOMAIN lastPreview \cup {preview_data[t][1]} |->
                          IF n = preview_data[t][1] THEN preview_data[t][2]
                          ELSE lastPreview[n]]
    /\ previewFirst' = IF preview_data[t][1] \in returned
                       THEN previewFirst
                       ELSE previewFirst \cup {preview_data[t][1]}
    /\ UNCHANGED <<pushed, trip>>
    /\ UNCHANGED <<components, component_data, initLocals, compLocals, snap,
                   returned, counters>>

\* .previews.insert(preview_data.0, preview_data.1); the guard is dropped and
\* the function returns.
register_preview_insert(t) ==
    /\ pc[t] = "rp_insert"
    /\ previews' = Insert(previews, preview_data[t][1], preview_data[t][2])
    /\ lock' = WriteUnlocked
    /\ preview_data' = [preview_data EXCEPT ![t] = Null]
    /\ pc' = [pc EXCEPT ![t] = ReturnTo(t, "init_previews")]
    /\ op' = [op EXCEPT ![t] = OpAfter(t)]
    /\ out' = None
    /\ lastPreview' = [n \in DOMAIN lastPreview \cup {preview_data[t][1]} |->
                          IF n = preview_data[t][1] THEN preview_data[t][2]
                          ELSE lastPreview[n]]
    /\ previewFirst' = IF preview_data[t][1] \in returned
                       THEN previewFirst
                       ELSE previewFirst \cup {preview_data[t][1]}
    /\ UNCHANGED <<pushed, trip>>
    /\ UNCHANGED <<components, component_data, initLocals, compLocals, snap,
                   returned, counters>>

(* ------------------------------- init ---------------------------------- *)

\* init that takes the write lock for the whole of its run.
init_locked(t) ==
    /\ pc[t] = "idle"
    /\ calls < MaxCalls
    /\ CanWrite
    /\ lock' = WriteLocked(t)
    /\ calls' = calls + 1
    /\ op' = [op EXCEPT ![t] = "init"]
    /\ component_fns' = [component_fns EXCEPT ![t] = ALL_COMPONENTS]
    /\ preview_fns' = [preview_fns EXCEPT ![t] = ALL_PREVIEWS]
    /\ invoked' = [invoked EXCEPT ![t] = <<>>]
    /\ pc' = [pc EXCEPT ![t] = "init_components"]
    /\ out' = None
    /\ UNCHANGED <<observed, trip>>
    /\ UNCHANGED <<registry, regLocals, compLocals, snap, returned,
                   initsDone, directCalls>>

\* let component_fns: Vec<_> = __ALL_COMPONENTS.iter().cloned().collect();
\* let preview_fns: Vec<_> = __ALL_PREVIEWS.iter().cloned().collect();
init(t) ==
    /\ pc[t] = "idle"
    /\ calls < MaxCalls
    /\ calls' = calls + 1
    /\ op' = [op EXCEPT ![t] = "init"]
    /\ component_fns' = [component_fns EXCEPT ![t] = ALL_COMPONENTS]
    /\ preview_fns' = [preview_fns EXCEPT ![t] = ALL_PREVIEWS]
    /\ invoked' = [invoked EXCEPT ![t] = <<>>]
    /\ pc' = [pc EXCEPT ![t] = "init_components"]
    /\ out' = None
    /\ UNCHANGED <<observed, trip>>
    /\ UNCHANGED <<registry, lock, regLocals, compLocals, snap, returned,
                   initsDone, directCalls>>

\* init_component_fn that steps over the callback behind the one it calls.
init_component_fn_skipping(t) ==
    /\ pc[t] = "init_components"
    /\ component_fns[t] /= <<>>
    /\ LET f == Head(component_fns[t])
       IN  /\ component_fns' = [component_fns EXCEPT ![t] =
                                   IF Len(@) >= 2 THEN Tail(Tail(@)) ELSE Tail(@)]
           /\ invoked' = [invoked EXCEPT ![t] = Append(@, <<"component", f>>)]
           /\ component_data' = [component_data EXCEPT ![t] = ComponentData(f)]
    /\ pc' = [pc EXCEPT ![t] = "rc_lock"]
    /\ out' = None
    /\ UNCHANGED <<observed, trip>>
    /\ UNCHANGED <<registry, lock, op, preview_data, preview_fns, compLocals, snap,
                   returned, counters>>

\* for f in component_fns { f(); }: the next callback is taken and called; it
\* is register_component::<T> for its type.
init_component_fn(t) ==
    /\ pc[t] = "init_components"
    /\ component_fns[t] /= <<>>
    /\ LET f == Head(component_fns[t])
       IN  /\ component_fns' = [component_fns EXCEPT ![t] = Tail(@)]
           /\ invoked' = [invoked EXCEPT ![t] = Append(@, <<"component", f>>)]
           /\ component_data' = [component_data EXCEPT ![t] = ComponentData(f)]
    /\ pc' = [pc EXCEPT ![t] = "rc_lock"]
    /\ out' = None
    /\ UNCHANGED <<observed, trip>>
    /\ UNCHANGED <<registry, lock, op, preview_data, preview_fns, compLocals, snap,
                   returned, counters>>

\* init_preview_fn that does not wait for the component loop to finish.
init_preview_fn_early(t) ==
    /\ pc[t] \in {"init_components", "init_previews"}
    /\ preview_fns[t] /= <<>>
    /\ LET f == Head(preview_fns[t])
       IN  /\ preview_fns' = [preview_fns EXCEPT ![t] = Tail(@)]
           /\ invoked' = [invoked EXCEPT ![t] = Append(@, <<"preview", f>>)]
           /\ preview_data' = [preview_data EXCEPT ![t] = PreviewData(f)]
    /\ pc' = [pc EXCEPT ![t] = "rp_lock"]
    /\ out' = None
    /\ UNCHANGED <<observed, trip>>
    /\ UNCHANGED <<registry, lock, op, component_data, component_fns, compLocals,
                   snap, returned, counters>>

\* for f in preview_fns { f(); }: reached when the first loop is exhausted; the
\* next callback is taken and called; it is register_preview::<T>.
init_preview_fn(t) ==
    /\ pc[t] \in {"init_components", "init_previews"}
    /\ component_fns[t] = <<>>
    /\ preview_fns[t] /= <<>>
    /\ LET f == Head(preview_fns[t])
       IN  /\ preview_fns' = [preview_fns EXCEPT ![t] = Tail(@)]
           /\ invoked' = [invoked EXCEPT ![t] = Append(@, <<"preview", f>>)]
           /\ preview_data' = [preview_data EXCEPT ![t] = PreviewData(f)]
    /\ pc' = [pc EXCEPT ![t] = "rp_lock"]
    /\ out' = None
    /\ UNCHANGED <<observed, trip>>
    /\ UNCHANGED <<registry, lock, op, component_data, component_fns, compLocals,
                   snap, returned, counters>>

\* Both loops are exhausted.
InitFinished(t) ==
    /\ pc[t] \in {"init_components", "init_previews"}
    /\ component_fns[t] = <<>>
    /\ preview_fns[t] = <<>>

\* init() returns.
init_return(t) ==
    /\ InitFinished(t)
    /\ pc' = [pc EXCEPT ![t] = "idle"]
    /\ op' = [op EXCEPT ![t] = "none"]
    /\ invoked' = [invoked EXCEPT ![t] = <<>>]
    /\ initsDone' = initsDone + 1
    /\ out' = None
    /\ UNCHANGED <<observed, trip>>
    /\ UNCHANGED <<registry, lock, regLocals, component_fns, preview_fns,
                   compLocals, snap, returned, calls, directCalls>>

(* ---------------------------- components ------------------------------- *)

\* AllComponentsNew seeded with an entry for every registered preview.
AllComponentsFromPreviews ==
    [n \in DOMAIN previews |-> [id |-> n,
                                name |-> n,
                                scope |-> None,
                                description |-> None,
                                preview |-> Some(previews[n])]]

\* AllComponents::new
AllComponentsNew == EmptyMap

\* FirstIndex off by one: the loop starts behind the first element.
FirstIndexSkipping == 1 + 1

\* The first element the for loop over &data.components visits.
FirstIndex == 1

\* ComponentsStep without the join: the preview is never looked up.
ComponentsStepNoJoin(acc, triple, prevs) ==
    LET name == triple[2]
    IN  Insert(acc, name, [id |-> name,
                           name |-> name,
                           scope |-> triple[1],
                           description |-> triple[3],
                           preview |-> None])

\* One iteration of the loop body for the triple (scope, name, description):
\* the preview is looked up by name and the metadata inserted under its id.
ComponentsStep(acc, triple, prevs) ==
    LET scope == triple[1]
        name == triple[2]
        description == triple[3]
        preview == Get(prevs, name)
        id == name
    IN  Insert(acc, id, [id |-> id,
                         name |-> name,
                         scope |-> scope,
                         description |-> description,
                         preview |-> preview])

\* The whole loop, from position i, over a registry that does not change.
RECURSIVE ComponentsFold(_, _, _, _)
ComponentsFold(acc, comps, prevs, i) ==
    IF i > Len(comps)
    THEN acc
    ELSE ComponentsFold(ComponentsStep(acc, comps[i], prevs), comps, prevs, i + 1)

\* components() on a registry nobody else touches.
ComponentsOf(comps, prevs) == ComponentsFold(AllComponentsNew, comps, prevs, FirstIndex)

\* A call of components(): the caller is about to ask for the read lock.
components_call(t) ==
    /\ pc[t] = "idle"
    /\ calls < MaxCalls
    /\ calls' = calls + 1
    /\ op' = [op EXCEPT ![t] = "components"]
    /\ pc' = [pc EXCEPT ![t] = "c_lock"]
    /\ out' = None
    /\ UNCHANGED <<observed, trip>>
    /\ UNCHANGED <<registry, lock, regLocals, initLocals, compLocals, snap, returned,
                   initsDone, directCalls>>

\* let data = COMPONENT_DATA.read(); let mut all_components = AllComponents::new();
components_read(t) ==
    /\ pc[t] = "c_lock"
    /\ CanRead
    /\ lock' = ReadLocked(t)
    /\ all_components' = [all_components EXCEPT ![t] = AllComponentsNew]
    /\ idx' = [idx EXCEPT ![t] = FirstIndex]
    /\ pc' = [pc EXCEPT ![t] = "c_loop"]
    /\ out' = None
    /\ UNCHANGED <<observed, trip>>
    /\ UNCHANGED <<registry, op, regLocals, initLocals, snap, returned, counters>>

\* for (scope, name, description) in &data.components { ... }
components_loop(t) ==
    /\ pc[t] = "c_loop"
    /\ idx[t] <= Len(components)
    /\ all_components' = [all_components EXCEPT ![t] =
                             ComponentsStep(@, components[idx[t]], previews)]
    /\ idx' = [idx EXCEPT ![t] = @ + 1]
    /\ out' = None
    /\ UNCHANGED <<observed, trip>>
    /\ UNCHANGED <<registry, lock, pc, op, regLocals, initLocals, snap, returned,
                   counters>>

\* The loop is exhausted: all_components is the value about to be returned.
ComponentsFinished(t) == pc[t] = "c_loop" /\ idx[t] > Len(components)

\* all_components is returned; data (the read guard) is dropped.
components_return(t) ==
    /\ ComponentsFinished(t)
    /\ snap' = [snap EXCEPT ![t] = Some(all_components[t])]
    /\ lock' = ReadUnlocked(t)
    /\ all_components' = [all_components EXCEPT ![t] = EmptyMap]
    /\ idx' = [idx EXCEPT ![t] = 0]
    /\ pc' = [pc EXCEPT ![t] = "idle"]
    /\ op' = [op EXCEPT ![t] = "none"]
    /\ out' = None
    /\ UNCHANGED <<observed, trip>>
    /\ UNCHANGED <<registry, regLocals, initLocals, returned, counters>>

(* ----------------------- AllComponents queries ------------------------- *)

\* NameLeq comparing the lengths first: a shorter name sorts before a longer.
RECURSIVE NameLeqShortFirst(_, _)
NameLeqShortFirst(a, b) ==
    IF Len(a) /= Len(b) THEN Len(a) < Len(b)
    ELSE IF a = <<>> THEN TRUE
    ELSE IF Head(a) < Head(b) THEN TRUE
    ELSE IF Head(a) > Head(b) THEN FALSE
    ELSE NameLeqShortFirst(Tail(a), Tail(b))

\* Ord on the name text: byte-wise lexicographic, a proper prefix first.
RECURSIVE NameLeq(_, _)
NameLeq(a, b) ==
    IF a = <<>> THEN TRUE
    ELSE IF b = <<>> THEN FALSE
    ELSE IF Head(a) < Head(b) THEN TRUE
    ELSE IF Head(a) > Head(b) THEN FALSE
    ELSE NameLeq(Tail(a), Tail(b))

\* x placed into the sorted vector s behind every element whose key is not
\* greater (the sort is stable).
RECURSIVE InsertByKey(_, _)
InsertByKey(s, x) ==
    IF s = <<>> THEN <<x>>
    ELSE IF NameLeq(Head(s).name, x.name)
         THEN <<Head(s)>> \o InsertByKey(Tail(s), x)
         ELSE <<x>> \o s

\* v.sort_by_key(|a| a.name())
RECURSIVE SortByKey(_)
SortByKey(v) ==
    IF v = <<>> THEN <<>>
    ELSE InsertByKey(SortByKey(SubSeq(v, 1, Len(v) - 1)), v[Len(v)])

\* |c| c.preview.is_some()
HasPreview(c) == c.preview /= None

\* self.0.values().filter(|c| c.preview.is_some()).collect(), for one order
\* of values()
FilterPreviews(vals) == SelectSeq(vals, HasPreview)

\* The AllComponents value thread t holds.
Snapshot(t) == snap[t][1]

\* A thread queries the snapshot it holds between two calls into the registry.
CanQuery(t) == pc[t] = "idle" /\ snap[t] /= None

\* The query of thread t returns val.
Answer(t, kind, val) ==
    /\ out' = Some([thread |-> t, kind |-> kind, val |-> val])
    /\ UNCHANGED <<observed, trip>>
    /\ UNCHANGED <<registry, lock, pc, op, regLocals, initLocals, compLocals, snap,
                   returned, counters>>

\* AllComponents::all
all(t) ==
    /\ CanQuery(t)
    /\ \E vals \in Values(Snapshot(t)) : Answer(t, "all", vals)

\* AllComponents::all_previews
all_previews(t) ==
    /\ CanQuery(t)
    /\ \E vals \in Values(Snapshot(t)) : Answer(t, "all_previews", FilterPreviews(vals))

\* AllComponents::all_sorted
all_sorted(t) ==
    /\ CanQuery(t)
    /\ \E vals \in Values(Snapshot(t)) : Answer(t, "all_sorted", SortByKey(vals))

\* AllComponents::all_previews_sorted
all_previews_sorted(t) ==
    /\ CanQuery(t)
    /\ \E vals \in Values(Snapshot(t)) :
          Answer(t, "all_previews_sorted", SortByKey(FilterPreviews(vals)))

(* ------------------------- the specification --------------------------- *)

\* Threads call init, the registration entry points and components()
\* concurrently.
Next ==
    \E t \in Threads :
        \/ init(t)
        \/ init_component_fn(t)
        \/ init_preview_fn(t)
        \/ init_return(t)
        \/ \E T \in Types : register_component(t, T)
        \/ register_component_write(t)
        \/ register_component_push(t)
        \/ \E T \in Types : register_preview(t, T)
        \/ register_preview_write(t)
        \/ register_preview_insert(t)
        \/ components_call(t)
        \/ components_read(t)
        \/ components_loop(t)
        \/ components_return(t)

Spec == Init /\ [][Next]_vars

\* The steps of a call thread t is in: everything but the entry into a public
\* function, which is the caller's choice.
Step(t) ==
    \/ init_component_fn(t)
    \/ init_preview_fn(t)
    \/ init_return(t)
    \/ register_component_write(t)
    \/ register_component_push(t)
    \/ register_preview_write(t)
    \/ register_preview_insert(t)
    \/ components_read(t)
    \/ components_loop(t)
    \/ components_return(t)

\* The scheduler runs every thread that can run, and the RwLock hands the lock
\* to a waiting thread once it is free (parking_lot's lock is eventually fair).
SpecFair == Spec /\ \A t \in Threads : WF_vars(Step(t))

(* ------------------ the queries on a populated registry ---------------- *)

\* Longest component list the query specification starts from.
MaxList == 3

\* The triples register_component can have pushed.
Triples == {ComponentData(T) : T \in Types}

\* The lists of at most n triples.
RECURSIVE ListsUpTo(_)
ListsUpTo(n) ==
    IF n = 0 THEN {<<>>}
    ELSE LET shorter == ListsUpTo(n - 1)
         IN  shorter \cup {Append(l, x) : l \in {s \in shorter : Len(s) = n - 1},
                                            x \in Triples}

\* The preview maps register_preview can have built.
PreviewMaps ==
    LET names == {Name(T) : T \in Types}
    IN  UNION {{m \in [D -> {Preview(T) : T \in Types}] :
                   \A n \in D : \E T \in Types : PreviewData(T) = <<n, m[n]>>} :
               D \in SUBSET names}

\* Registration is over: the registry holds any list and any preview map the
\* entry points can have produced, no thread is inside the crate, and every
\* thread holds the snapshot components() gives for that registry.
InitQuery ==
    /\ components \in ListsUpTo(MaxList)
    /\ previews \in PreviewMaps
    /\ lock = [writer |-> NoThread, readers |-> {}]
    /\ pc = [t \in Threads |-> "idle"]
    /\ op = [t \in Threads |-> "none"]
    /\ component_data = [t \in Threads |-> Null]
    /\ preview_data = [t \in Threads |-> Null]
    /\ component_fns = [t \in Threads |-> <<>>]
    /\ preview_fns = [t \in Threads |-> <<>>]
    /\ invoked = [t \in Threads |-> <<>>]
    /\ all_components = [t \in Threads |-> EmptyMap]
    /\ idx = [t \in Threads |-> 0]
    /\ snap = [t \in Threads |-> Some(ComponentsOf(components, previews))]
    /\ out = None
    /\ returned = {components[i][2] : i \in 1..Len(components)}
    /\ pushed = [x \in {components[i] : i \in 1..Len(components)} |->
                    Cardinality({i \in 1..Len(components) : components[i] = x})]
    /\ lastPreview = previews
    /\ previewFirst = DOMAIN previews \ {components[i][2] : i \in 1..Len(components)}
    /\ trip = NoTrip
    /\ calls = MaxCalls
    /\ initsDone = 0
    /\ directCalls = MaxCalls

\* Threads query the snapshot they hold.
NextQuery ==
    \E t \in Threads :
        \/ all(t)
        \/ all_previews(t)
        \/ all_sorted(t)
        \/ all_previews_sorted(t)

SpecQuery == InitQuery /\ [][NextQuery]_vars

(* --------------------------- ComponentScope ---------------------------- *)

\* Longest chain of conversions between scopes and texts one caller makes.
MaxConversions == 3

\* The variants without a payload; Unknown(text) is <<"Unknown", text>>.
NamedScopes == {<<"Layout">>, <<"Input">>, <<"Notification">>, <<"Editor">>,
                <<"Collaboration">>, <<"VersionControl">>}

\* The texts the constructors recognise.
ScopeTexts == {"Layout", "Input", "Notification", "Editor", "Collaboration",
               "Version Control", "VersionControl"}

\* Texts the constructors do not recognise.
OtherTexts == {"", "layout", "Custom", "Unknown", "Unknown: Custom"}

\* impl Display for ComponentScope
Display(scope) ==
    CASE scope = <<"Layout">> -> "Layout"
      [] scope = <<"Input">> -> "Input"
      [] scope = <<"Notification">> -> "Notification"
      [] scope = <<"Editor">> -> "Editor"
      [] scope = <<"Collaboration">> -> "Collaboration"
      [] scope = <<"VersionControl">> -> "Version Control"
      [] OTHER -> "Unknown: " \o scope[2]

\* From<&str> that knows VersionControl under one spelling only.
FromStrOneSpelling(value) ==
    CASE value = "Layout" -> <<"Layout">>
      [] value = "Input" -> <<"Input">>
      [] value = "Notification" -> <<"Notification">>
      [] value = "Editor" -> <<"Editor">>
      [] value = "Collaboration" -> <<"Collaboration">>
      [] value = "VersionControl" -> <<"VersionControl">>
      [] OTHER -> <<"Unknown", value>>

\* impl From<&str> for ComponentScope
FromStr(value) ==
    CASE value = "Layout" -> <<"Layout">>
      [] value = "Input" -> <<"Input">>
      [] value = "Notification" -> <<"Notification">>
      [] value = "Editor" -> <<"Editor">>
      [] value = "Collaboration" -> <<"Collaboration">>
      [] value = "Version Control" \/ value = "VersionControl" -> <<"VersionControl">>
      [] OTHER -> <<"Unknown", value>>

\* From<String> that knows VersionControl under one spelling only.
FromStringOneSpelling(value) ==
    CASE value = "Layout" -> <<"Layout">>
      [] value = "Input" -> <<"Input">>
      [] value = "Notification" -> <<"Notification">>
      [] value = "Editor" -> <<"Editor">>
      [] value = "Collaboration" -> <<"Collaboration">>
      [] value = "Version Control" -> <<"VersionControl">>
      [] OTHER -> <<"Unknown", value>>

\* impl From<String> for ComponentScope
FromString(value) ==
    CASE value = "Layout" -> <<"Layout">>
      [] value = "Input" -> <<"Input">>
      [] value = "Notification" -> <<"Notification">>
      [] value = "Editor" -> <<"Editor">>
      [] value = "Collaboration" -> <<"Collaboration">>
      [] value = "Version Control" \/ value = "VersionControl" -> <<"VersionControl">>
      [] OTHER -> <<"Unknown", value>>

\* Everything but trip: the conversions touch no state of the registry.
crateVars == <<components, previews, lock, pc, op, component_data, preview_data,
               component_fns, preview_fns, invoked, all_components, idx, snap, out,
               returned, pushed, lastPreview, previewFirst, calls, initsDone,
               directCalls>>

\* The number of conversions made.
Conversions == Len(trip.scopes) + Len(trip.texts) - 1

\* The caller holds a scope it has not yet displayed.
HoldsScope ==
    \/ trip.start = "scope" /\ Len(trip.texts) < Len(trip.scopes)
    \/ trip.start = "text" /\ Len(trip.texts) = Len(trip.scopes)

\* The caller holds a text it has not yet converted.
HoldsText ==
    \/ trip.start = "text" /\ Len(trip.scopes) < Len(trip.texts)
    \/ trip.start = "scope" /\ Len(trip.texts) = Len(trip.scopes)

\* scope.to_string()
to_string ==
    /\ HoldsScope
    /\ Conversions < MaxConversions
    /\ trip' = [trip EXCEPT !.texts = Append(@, Display(trip.scopes[Len(trip.scopes)]))]
    /\ UNCHANGED crateVars

\* ComponentScope::from(text), text a &str
from_str ==
    /\ HoldsText
    /\ Conversions < MaxConversions
    /\ trip' = [trip EXCEPT !.scopes = Append(@, FromStr(trip.texts[Len(trip.texts)])),
                            !.ctors = Append(@, "str")]
    /\ UNCHANGED crateVars

\* ComponentScope::from(text), text a String
from_string ==
    /\ HoldsText
    /\ Conversions < MaxConversions
    /\ trip' = [trip EXCEPT !.scopes = Append(@, FromString(trip.texts[Len(trip.texts)])),
                            !.ctors = Append(@, "String")]
    /\ UNCHANGED crateVars

\* A caller starts from any scope value or any text.
InitScope ==
    /\ Quiet
    /\ \/ \E s \in NamedScopes \cup {<<"Unknown", t>> : t \in OtherTexts} :
             trip = [start |-> "scope", scopes |-> <<s>>, texts |-> <<>>, ctors |-> <<>>]
       \/ \E t \in ScopeTexts \cup OtherTexts :
             trip = [start |-> "text", scopes |-> <<>>, texts |-> <<t>>, ctors |-> <<>>]

NextScope == to_string \/ from_str \/ from_string

SpecScope == InitScope /\ [][NextScope]_vars

(* ------------------------------ properties ----------------------------- *)

\* The names in a component list.
NamesOf(list) == {list[i][2] : i \in 1..Len(list)}

\* The position of the last triple of a list that carries name n.
LastIndexOf(list, n) ==
    CHOOSE i \in 1..Len(list) :
        /\ list[i][2] = n
        /\ \A j \in (i + 1)..Len(list) : list[j][2] /= n

\* How many elements of sequence s satisfy Test.
CountIn(s, Test(_)) == Cardinality({i \in 1..Len(s) : Test(s[i])})

\* The keyed view of the first k triples of a list joined with a preview map,
\* stated without reference to the loop: per name, the last triple.
ViewOf(list, prevs, k) ==
    LET first == SubSeq(list, 1, k)
    IN  [n \in NamesOf(first) |->
            LET i == LastIndexOf(first, n)
            IN  [id |-> n,
                 name |-> n,
                 scope |-> first[i][1],
                 description |-> first[i][3],
                 preview |-> IF n \in DOMAIN prevs THEN Some(prevs[n]) ELSE None]]

\* C1: whatever register_component calls were made, the snapshot components()
\* is about to return holds exactly one entry per distinct registered name, and
\* no other entry, and that entry carries the scope and the description of the
\* last triple registered under the name.
C1_LastRegistrationWins ==
    \A t \in Threads :
        ComponentsFinished(t) =>
            \A vals \in Values(all_components[t]) :
                /\ \A i \in 1..Len(vals) : vals[i].id \in NamesOf(components)
                /\ \A n \in NamesOf(components) :
                      LET last == components[LastIndexOf(components, n)]
                          IsN(c) == c.id = n
                          IsLast(c) == /\ c.id = n
                                       /\ c.scope = last[1]
                                       /\ c.description = last[3]
                      IN  /\ CountIn(vals, IsN) = 1
                          /\ CountIn(vals, IsLast) = 1

\* C1 witness: Button then ButtonAlt were registered under the same name and
\* the snapshot about to be returned carries ButtonAlt's description.
C1_Witness ==
    \E t \in Threads :
        /\ ComponentsFinished(t)
        /\ \E i, j \in 1..Len(components) :
              /\ i < j
              /\ components[i] = ComponentData("Button")
              /\ components[j] = ComponentData("ButtonAlt")
              /\ j = LastIndexOf(components, Name("Button"))
        /\ all_components[t][Name("Button")].description = Some("v2")

\* C2: a snapshot that has been returned is frozen: no step that changes the
\* registry (a register_component push, a register_preview insert) changes a
\* snapshot a thread already holds.
C2_SnapshotFrozen ==
    [][\A t \in Threads :
          (snap[t] /= None /\ registry' /= registry) => snap'[t] = snap[t]]_vars

\* C2 witness: a thread holds a snapshot that lacks a name registered since,
\* and lacks the preview registered since for a name it does hold.
C2_Witness ==
    \E t \in Threads :
        /\ snap[t] /= None
        /\ \/ \E n \in NamesOf(components) : n \notin DOMAIN Snapshot(t)
           \/ \E n \in DOMAIN Snapshot(t) :
                 /\ n \in DOMAIN previews
                 /\ Snapshot(t)[n].preview /= Some(previews[n])

\* C3: while components() builds a snapshot no writer is in the registry, and
\* what it has built from the first idx - 1 triples is the keyed view of those
\* triples joined with the preview map as it is now; so the value it returns
\* is the view of the registry at one instant.
C3_SingleConsistentRead ==
    \A t \in Threads :
        pc[t] = "c_loop" =>
            /\ lock.writer = NoThread
            /\ t \in lock.readers
            /\ \A u \in Threads : pc[u] \notin {"rc_push", "rp_insert"}
            /\ idx[t] - 1 <= Len(components)
            /\ all_components[t] = ViewOf(components, previews, idx[t] - 1)

\* C3 witness: a snapshot is half built while another thread waits for the
\* write lock to register a preview.
C3_Witness ==
    \E t, u \in Threads :
        /\ pc[t] = "c_loop"
        /\ idx[t] >= 2
        /\ idx[t] <= Len(components)
        /\ pc[u] = "rp_lock"

\* C4: in the snapshot components() is about to return, every registered
\* component is in all(); one whose name has no registered preview is not in
\* all_previews(); one whose name has a registered preview is in
\* all_previews() and its preview is Some of the callback registered for the
\* name.
C4_PreviewJoin ==
    \A t \in Threads :
        ComponentsFinished(t) =>
            \A vals \in Values(all_components[t]) :
                \A n \in NamesOf(components) :
                    LET IsN(c) == c.id = n
                        IsJoined(c) == c.id = n /\ c.preview = Some(previews[n])
                    IN  /\ CountIn(vals, IsN) = 1
                        /\ n \notin DOMAIN previews =>
                               CountIn(FilterPreviews(vals), IsN) = 0
                        /\ n \in DOMAIN previews =>
                               CountIn(FilterPreviews(vals), IsJoined) = 1

\* C4 witness: the snapshot about to be returned holds a component with a
\* registered preview and a component without one.
C4_Witness ==
    \E t \in Threads :
        /\ ComponentsFinished(t)
        /\ \E n, k \in DOMAIN all_components[t] :
              /\ n \in DOMAIN previews
              /\ all_components[t][n].preview = Some(previews[n])
              /\ k \notin DOMAIN previews
              /\ all_components[t][k].preview = None

\* C5: when init() has exhausted both loops it has invoked every callback of
\* the component slice and every callback of the preview slice exactly once.
C5_EachCallbackOnce ==
    \A t \in Threads :
        InitFinished(t) =>
            /\ \A i \in 1..Len(ALL_COMPONENTS) :
                  LET IsIt(c) == c = <<"component", ALL_COMPONENTS[i]>>
                  IN  CountIn(invoked[t], IsIt) = 1
            /\ \A i \in 1..Len(ALL_PREVIEWS) :
                  LET IsIt(c) == c = <<"preview", ALL_PREVIEWS[i]>>
                  IN  CountIn(invoked[t], IsIt) = 1
            /\ Len(invoked[t]) = Len(ALL_COMPONENTS) + Len(ALL_PREVIEWS)

\* C5 witness: an init() call has exhausted both loops.
C5_Witness ==
    \E t \in Threads : InitFinished(t) /\ Len(invoked[t]) >= 2

\* The callbacks of one init() call in the order the claim gives them.
InitOrder ==
    [i \in 1..Len(ALL_COMPONENTS) |-> <<"component", ALL_COMPONENTS[i]>>]
        \o [i \in 1..Len(ALL_PREVIEWS) |-> <<"preview", ALL_PREVIEWS[i]>>]

\* C6: what an init() call has invoked so far is an initial part of: the
\* component slice in slice order, then the preview slice in slice order; and
\* once it has invoked a preview callback, the triple of every component
\* callback is in the registry's list.
C6_ComponentsBeforePreviews ==
    \A t \in Threads :
        op[t] = "init" =>
            /\ Len(invoked[t]) <= Len(InitOrder)
            /\ invoked[t] = SubSeq(InitOrder, 1, Len(invoked[t]))
            /\ (\E i \in 1..Len(invoked[t]) : invoked[t][i][1] = "preview") =>
                   \A j \in 1..Len(ALL_COMPONENTS) :
                       LET IsIt(c) == c = ComponentData(ALL_COMPONENTS[j])
                       IN  CountIn(components, IsIt) >= 1

\* C6 witness: an init() call is invoking its first preview callback.
C6_Witness ==
    \E t \in Threads :
        /\ op[t] = "init"
        /\ pc[t] = "rp_lock"
        /\ Len(invoked[t]) = Len(ALL_COMPONENTS) + 1

\* The preview map one init() call builds, run alone.
RECURSIVE InitPreviews(_, _)
InitPreviews(m, fns) ==
    IF fns = <<>> THEN m
    ELSE InitPreviews(Insert(m, PreviewData(Head(fns))[1], PreviewData(Head(fns))[2]),
                      Tail(fns))

\* The snapshot components() returns after one init() call, run alone on the
\* new registry.
SingleInitSnapshot ==
    ComponentsOf([i \in 1..Len(ALL_COMPONENTS) |-> ComponentData(ALL_COMPONENTS[i])],
                 InitPreviews(ComponentRegistryNew.previews, ALL_PREVIEWS))

\* Only init() calls have written to the registry and none is running.
OnlyInits == directCalls = 0 /\ \A u \in Threads : op[u] /= "init"

\* C7: when k >= 1 init() calls have returned, none is running and nothing
\* else has registered, the snapshot components() is about to return is the
\* snapshot after a single init() call, whatever k is.
C7_InitIdempotent ==
    \A t \in Threads :
        (ComponentsFinished(t) /\ initsDone >= 1 /\ OnlyInits) =>
            all_components[t] = SingleInitSnapshot

\* C7 witness: components() is about to return after two init() calls.
C7_Witness ==
    \E t \in Threads :
        /\ ComponentsFinished(t)
        /\ initsDone >= 2
        /\ OnlyInits
        /\ Len(components) = 2 * Len(ALL_COMPONENTS)

\* The names of a list are pairwise distinct.
DistinctNames(list) ==
    \A i, j \in 1..Len(list) : list[i][2] = list[j][2] => i = j

\* The keyed view of a set of distinct-named triples: no order enters it.
ViewOfSet(triples, prevs) ==
    [n \in {x[2] : x \in triples} |->
        LET x == CHOOSE y \in triples : y[2] = n
        IN  [id |-> n,
             name |-> n,
             scope |-> x[1],
             description |-> x[3],
             preview |-> IF n \in DOMAIN prevs THEN Some(prevs[n]) ELSE None]]

\* C8: when the registered components have distinct names, the snapshot
\* components() is about to return holds each of them exactly once, holds
\* every name whose register_component call has returned, and is determined by
\* the set of registered triples alone, not by the order of the calls.
C8_OrderIndependent ==
    \A t \in Threads :
        (ComponentsFinished(t) /\ DistinctNames(components)) =>
            /\ returned \subseteq DOMAIN all_components[t]
            /\ all_components[t] =
                   ViewOfSet({components[i] : i \in 1..Len(components)}, previews)
            /\ \A vals \in Values(all_components[t]) :
                  /\ Len(vals) = Len(components)
                  /\ \A i \in 1..Len(components) :
                        LET IsIt(c) == /\ c.id = components[i][2]
                                       /\ c.scope = components[i][1]
                                       /\ c.description = components[i][3]
                        IN  CountIn(vals, IsIt) = 1

\* C8 witness: two distinct-named components were registered, the later one
\* under the smaller name; the snapshot is about to be
\* returned.
C8_Witness ==
    \E t \in Threads :
        /\ ComponentsFinished(t)
        /\ DistinctNames(components)
        /\ Len(components) >= 2
        /\ components[1][2] /= components[2][2]
        /\ NameLeq(components[2][2], components[1][2])

\* C9: the snapshot components() is about to return holds every name whose
\* register_component call has returned, every name of every snapshot returned
\* before it, and, once an init() call has returned, every name the callbacks
\* of the component slice register.
C9_NeverMissing ==
    \A t \in Threads :
        ComponentsFinished(t) =>
            /\ returned \subseteq DOMAIN all_components[t]
            /\ \A u \in Threads :
                  snap[u] /= None => DOMAIN Snapshot(u) \subseteq DOMAIN all_components[t]
            /\ initsDone >= 1 =>
                  \A i \in 1..Len(ALL_COMPONENTS) :
                      Name(ALL_COMPONENTS[i]) \in DOMAIN all_components[t]

\* C9 witness: after an init() call has returned, components() is about to
\* return a snapshot with more names than one returned earlier.
C9_Witness ==
    \E t, u \in Threads :
        /\ ComponentsFinished(t)
        /\ initsDone >= 1
        /\ snap[u] /= None
        /\ DOMAIN Snapshot(u) /= DOMAIN all_components[t]
        /\ returned /= {}

\* Lexicographic order of two names, stated on their bytes: they agree up to
\* some position k where a ends or a has the smaller byte.
LexLeq(a, b) ==
    \E k \in 0..Len(a) :
        /\ k <= Len(b)
        /\ \A i \in 1..k : a[i] = b[i]
        /\ \/ k = Len(a)
           \/ k < Len(b) /\ a[k + 1] < b[k + 1]

\* A vector of entries is in non-decreasing order of name.
SortedByName(v) == \A i, j \in 1..Len(v) : i < j => LexLeq(v[i].name, v[j].name)

\* C10: all_sorted() returns every entry of the snapshot exactly once in
\* non-decreasing lexicographic order of name; all_previews_sorted() returns
\* the entries with a preview, each exactly once, and no other entry, in the
\* same order.
C10_SortedQueries ==
    out /= None =>
        LET r == out[1]
            m == Snapshot(r.thread)
        IN  /\ r.kind = "all_sorted" =>
                  /\ SortedByName(r.val)
                  /\ Len(r.val) = Cardinality(DOMAIN m)
                  /\ \A n \in DOMAIN m :
                        LET IsIt(c) == c = m[n] IN CountIn(r.val, IsIt) = 1
            /\ r.kind = "all_previews_sorted" =>
                  /\ SortedByName(r.val)
                  /\ \A i \in 1..Len(r.val) : r.val[i].preview /= None
                  /\ \A n \in DOMAIN m :
                        LET IsIt(c) == c = m[n]
                        IN  CountIn(r.val, IsIt) = IF m[n].preview /= None THEN 1 ELSE 0

\* C10 witness: all_previews_sorted() has returned two of the three entries of
\* a snapshot, the one named "ab" before the one named "b".
C10_Witness ==
    /\ out /= None
    /\ out[1].kind = "all_previews_sorted"
    /\ Cardinality(DOMAIN Snapshot(out[1].thread)) = 3
    /\ Len(out[1].val) = 2
    /\ out[1].val[1].name = <<97, 98>>
    /\ out[1].val[2].name = <<98>>

\* C11: while no register_component call has pushed a triple, with or without
\* registered previews, the snapshot components() is about to return is empty,
\* and all(), all_previews(), all_sorted() and all_previews_sorted() of it are
\* the empty vector.
C11_EmptyRegistryEmptySnapshot ==
    \A t \in Threads :
        (ComponentsFinished(t) /\ components = <<>>) =>
            /\ DOMAIN all_components[t] = {}
            /\ \A vals \in Values(all_components[t]) :
                  /\ vals = <<>>
                  /\ FilterPreviews(vals) = <<>>
                  /\ SortByKey(vals) = <<>>
                  /\ SortByKey(FilterPreviews(vals)) = <<>>

\* C11 witness: components() is about to return on a registry with no
\* component and a registered preview.
C11_Witness ==
    \E t \in Threads :
        /\ ComponentsFinished(t)
        /\ components = <<>>
        /\ pushed = EmptyMap
        /\ DOMAIN previews /= {}

\* The text the k-th constructor call of the trip was given.
FromInput(k) == trip.texts[k]

\* The scope the k-th constructor call of the trip gave.
FromOutput(k) == trip.scopes[IF trip.start = "scope" THEN k + 1 ELSE k]

\* C12: a named variant converted to its display text and that text passed to
\* either constructor gives the same variant: in a chain of conversions the
\* scope that follows a named scope is that scope.
C12_NamedScopeRoundTrip ==
    \A i \in 1..(Len(trip.scopes) - 1) :
        trip.scopes[i] \in NamedScopes => trip.scopes[i + 1] = trip.scopes[i]

\* C12 witness: VersionControl was displayed as "Version Control" and
\* converted back by From<&str>.
C12_Witness ==
    /\ trip.start = "scope"
    /\ Len(trip.scopes) = 2
    /\ trip.scopes[1] = <<"VersionControl">>
    /\ trip.texts[1] = "Version Control"
    /\ trip.ctors[1] = "str"
    /\ trip.scopes[2] = <<"VersionControl">>

\* C13: Unknown(t), t not a recognised text, converted to its display text and
\* back through a constructor gives Unknown(t) again.
C13_UnknownRoundTrip ==
    \A i \in 1..(Len(trip.scopes) - 1) :
        (trip.scopes[i] \notin NamedScopes /\ trip.scopes[i][2] \notin ScopeTexts) =>
            trip.scopes[i + 1] = trip.scopes[i]

\* The scope a text stands for.
ScopeOfText(t) ==
    IF t \in {"Layout", "Input", "Notification", "Editor", "Collaboration"}
    THEN <<t>>
    ELSE IF t \in {"Version Control", "VersionControl"}
         THEN <<"VersionControl">>
         ELSE <<"Unknown", t>>

\* C20: every text gives a scope under both constructors and the same scope
\* under both: the five one-word names give their variants, "Version Control"
\* and "VersionControl" give VersionControl, any other text t gives Unknown(t).
C20_FromTotal ==
    /\ \A k \in 1..Len(trip.ctors) : FromOutput(k) = ScopeOfText(FromInput(k))
    /\ \A k \in 1..Len(trip.texts) :
          /\ FromStr(trip.texts[k]) = FromString(trip.texts[k])
          /\ FromStr(trip.texts[k]) \in
                 NamedScopes \cup {<<"Unknown", trip.texts[k]>>}

\* C20 witness: From<String> was given "VersionControl" and gave the variant.
C20_Witness ==
    /\ trip.start = "text"
    /\ Len(trip.ctors) >= 1
    /\ trip.texts[1] = "VersionControl"
    /\ trip.ctors[1] = "String"
    /\ trip.scopes[1] = <<"VersionControl">>

\* The sum of f over the set D.
RECURSIVE SumOver(_, _)
SumOver(f, D) ==
    IF D = {} THEN 0
    ELSE LET x == CHOOSE y \in D : TRUE
         IN  f[x] + SumOver(f, D \ {x})

\* How often each element occurs in a list.
BagOf(list) ==
    [x \in {list[i] : i \in 1..Len(list)} |->
        Cardinality({i \in 1..Len(list) : list[i] = x})]

\* C14: with threads registering concurrently the component list holds one
\* triple per register_component call that has returned, the preview map has
\* an entry for every name a returned register_preview call passed, and the
\* lock is exclusive: the thread that pushes or inserts is the one writer, and
\* while there is a writer no thread is building a snapshot.
C14_NoLostRegistration ==
    /\ BagOf(components) = pushed
    /\ DOMAIN lastPreview \subseteq DOMAIN previews
    /\ \A t \in Threads :
          /\ pc[t] \in {"rc_push", "rp_insert"} <=> lock.writer = t
          /\ pc[t] = "c_loop" <=> t \in lock.readers
    /\ lock.writer /= NoThread => lock.readers = {}

\* C14 witness: one thread is pushing a triple onto a list that already holds
\* one, while another thread waits for the write lock to register a preview.
C14_Witness ==
    \E t, u \in Threads :
        /\ t /= u
        /\ op[t] = "register_component" /\ pc[t] = "rc_push"
        /\ op[u] = "register_preview" /\ pc[u] = "rp_lock"
        /\ components /= <<>>

\* C15: for a name whose register_component and register_preview calls have
\* both returned, in whichever order, the snapshot components() is about to
\* return has an entry carrying the last registered scope and description and
\* the last registered preview.
C15_OrderOfRegistrationIrrelevant ==
    \A t \in Threads :
        ComponentsFinished(t) =>
            \A n \in returned \cap DOMAIN lastPreview :
                /\ n \in DOMAIN all_components[t]
                /\ LET i == LastIndexOf(components, n)
                   IN  /\ all_components[t][n].scope = components[i][1]
                       /\ all_components[t][n].description = components[i][3]
                /\ all_components[t][n].preview = Some(lastPreview[n])

\* C15 witness: the snapshot about to be returned has an entry with preview for
\* a name whose preview was registered first and for a name whose component
\* was registered first.
C15_Witness ==
    \E t \in Threads :
        /\ ComponentsFinished(t)
        /\ \E n \in previewFirst \cap returned :
              all_components[t][n].preview /= None
        /\ \E n \in (returned \cap DOMAIN lastPreview) \ previewFirst :
              all_components[t][n].preview /= None

\* Thread t returns from the push of register_component in this step.
PushReturns(t) == pc[t] = "rc_push" /\ pc'[t] /= "rc_push"

\* C16: every push of register_component appends the caller's triple at the
\* end of the list, whatever names the list holds, and leaves the triples
\* before it and the preview map as they were; nothing else changes the list;
\* the list is as long as the number of register_component calls returned.
C16_AppendOnly ==
    [][/\ \A t \in Threads :
             PushReturns(t) =>
                 /\ components' = Append(components, component_data[t])
                 /\ previews' = previews
       /\ components' /= components => \E t \in Threads : PushReturns(t)
       /\ Len(components') = SumOver(pushed', DOMAIN pushed')]_vars

\* C16 witness: the list holds two triples of the same name.
C16_Witness ==
    \E i, j \in 1..Len(components) :
        /\ i < j
        /\ components[i][2] = components[j][2]

\* C17: the preview map has one entry per name passed to register_preview,
\* holding the callback of the last call that returned; the list holds only
\* what register_component pushed; and the snapshot components() is about to
\* return carries that last callback for every name it has an entry for.
C17_PreviewOverwrites ==
    /\ DOMAIN previews = DOMAIN lastPreview
    /\ \A n \in DOMAIN previews : previews[n] = lastPreview[n]
    /\ NamesOf(components) = returned
    /\ Len(components) = SumOver(pushed, DOMAIN pushed)
    /\ \A t \in Threads :
          ComponentsFinished(t) =>
              \A n \in DOMAIN all_components[t] \cap DOMAIN lastPreview :
                  all_components[t][n].preview = Some(lastPreview[n])

\* C17 witness: init() has registered the preview of Button, a later call has
\* registered the preview of ButtonAlt under the same name, and the snapshot
\* about to be returned carries the preview of ButtonAlt.
C17_Witness ==
    \E t \in Threads :
        /\ ComponentsFinished(t)
        /\ initsDone >= 1
        /\ Name("ButtonAlt") = Name("Button")
        /\ Name("ButtonAlt") \in DOMAIN all_components[t]
        /\ previews[Name("ButtonAlt")] = Preview("ButtonAlt")
        /\ all_components[t][Name("ButtonAlt")].preview = Some(Preview("ButtonAlt"))

\* C18: the ids of the snapshot components() is about to return are the names
\* in the component list; a name with a preview and no component is in no
\* snapshot, returned or about to be, and in no answer of all() or
\* all_previews() on it.
C18_PreviewOnlyNameAbsent ==
    /\ \A t \in Threads :
          ComponentsFinished(t) =>
              /\ DOMAIN all_components[t] = NamesOf(components)
              /\ \A n \in DOMAIN lastPreview \ returned :
                    /\ n \notin DOMAIN all_components[t]
                    /\ \A vals \in Values(all_components[t]) :
                          /\ \A i \in 1..Len(vals) : vals[i].name /= n
                          /\ \A i \in 1..Len(FilterPreviews(vals)) :
                                FilterPreviews(vals)[i].name /= n
    /\ \A u \in Threads :
          snap[u] /= None =>
              /\ DOMAIN Snapshot(u) \subseteq returned
              /\ \A n \in DOMAIN lastPreview \ returned : n \notin DOMAIN Snapshot(u)

\* C18 witness: the snapshot about to be returned has entries, and a preview is
\* registered under a name no component was registered under.
C18_Witness ==
    \E t \in Threads :
        /\ ComponentsFinished(t)
        /\ DOMAIN all_components[t] /= {}
        /\ DOMAIN previews \ returned /= {}

\* Thread t waits for a lock it cannot be given now.
Blocked(t) ==
    \/ pc[t] \in {"rc_lock", "rp_lock"} /\ ~CanWrite
    \/ pc[t] = "c_lock" /\ ~CanRead

\* C19: with every thread scheduled fairly, a thread inside init(),
\* register_component, register_preview or components() gets back to its
\* caller; never is every thread blocked on the lock; and a thread in init()
\* holds no lock while it picks a callback or the callback waits for the lock.
C19_EveryCallReturns ==
    /\ [](/\ ~(\A t \in Threads : Blocked(t))
          /\ \A t \in Threads :
                pc[t] \in {"init_components", "init_previews", "rc_lock", "rp_lock",
                           "c_lock"} =>
                    /\ lock.writer /= t
                    /\ t \notin lock.readers)
    /\ \A t \in Threads : (pc[t] /= "idle") ~> (pc[t] = "idle")

\* C19 witness: a callback run by init() holds the write lock while another
\* thread, in components(), waits for the read lock.
C19_Witness ==
    \E t, u \in Threads :
        /\ op[t] = "init" /\ pc[t] = "rc_push"
        /\ pc[u] = "c_lock"
        /\ Blocked(u)

====
